---- MODULE Spec2Model ----
(***************************************************************************)
(* GLError and GLExpected<T> / GLExpected<void> of fgOpenGL/GLError.h as a *)
(* state machine over a small pool of objects.                             *)
(*                                                                         *)
(* A GLenum is a 32-bit unsigned integer; the top bit of the stored word   *)
(* is UNCHECKED_FLAG, the low 31 bits are the error code.                  *)
(*                                                                         *)
(* Builds.  The header reads two macros: _DEBUG (the UNCHECKED_FLAG        *)
(* bookkeeping) and, through <assert.h>, NDEBUG (assert compiled out).     *)
(*   "debug"        _DEBUG defined, assert live                            *)
(*   "debug_ndebug" _DEBUG defined, NDEBUG defined (assert compiled out)   *)
(*   "release"      _DEBUG not defined, NDEBUG defined                     *)
(* Without _DEBUG the constant UNCHECKED_FLAG is not declared (l.96-98),   *)
(* so ~GLError (l.59) compiles only with NDEBUG, and GLExpected<T>, which  *)
(* names GLError::UNCHECKED_FLAG unconditionally (l.186, 201, 215, 244),   *)
(* cannot be instantiated: the release build has no GLExpected<T> objects. *)
(***************************************************************************)
EXTENDS Integers, Sequences, FiniteSets, TLC

\* ------------------------------------------------------------------ bounds
\* Number of object slots (objects alive at the same time).
NumSlots == 2

\* ------------------------------------------------------- program constants
\* sizeof(GLenum) * 8
GLenumBits == 32
GL_NO_ERROR == 0

(***************************************************************************)
(* A GLenum word is kept as its top bit and its low bits, [hi, lo], since  *)
(* TLC's integers are 32-bit signed: hi is bit GLenumBits-1, lo the        *)
(* GLenumBits-1 bits below it.                                             *)
(***************************************************************************)
\* The low bits all set: 2^(GLenumBits-1) - 1.
LowMask == ((2 ^ (GLenumBits - 2)) - 1) * 2 + 1

W(hi, lo) == [hi |-> hi, lo |-> lo]

\* A GLenum holding the small non-negative number n.
Enum(n) == W(0, n)

\* ~x on a GLenum
Not32(x) == W(1 - x.hi, LowMask - x.lo)

\* x | y and x & y, where y is UNCHECKED_FLAG, INVALID_ERROR or GL_NO_ERROR
\* (every mask the header uses has its low bits all set or all clear).
Or32(x, y) == W(IF x.hi + y.hi > 0 THEN 1 ELSE 0,
                IF y.lo = LowMask THEN LowMask ELSE x.lo)
And32(x, y) == W(x.hi * y.hi, IF y.lo = LowMask THEN x.lo ELSE 0)

\* static const GLenum INVALID_ERROR = ~(1 << ((sizeof(GLenum) * 8) - 1));
INVALID_ERROR == Not32(W(1, 0))

\* static const GLenum UNCHECKED_FLAG = ~INVALID_ERROR;
UNCHECKED_FLAG == Not32(INVALID_ERROR)

NO_ERROR == Enum(GL_NO_ERROR)

\* (w & UNCHECKED_FLAG) != 0
HasFlag(w) == And32(w, UNCHECKED_FLAG) # NO_ERROR

\* ------------------------------------------------------------------ inputs
\* GL_INVALID_ENUM and GL_OUT_OF_MEMORY, two codes glGetError() can return.
DriverErrors == {1280, 1285}
\* Codes a GLError can be constructed with: GLError(GLenum err, const char*)
\* takes any GLenum, the public constant INVALID_ERROR included.
Codes == {NO_ERROR, INVALID_ERROR} \cup {Enum(n) : n \in DriverErrors}
NULL == "nullptr"
\* Static context strings naming a call site.
Contexts == {"glGenFramebuffers"}
\* What an indeterminate pointer may turn out to be.
WildPtr == "wild"
Pointers == {NULL, WildPtr} \cup Contexts
\* Payloads of T, and what reading a T that was never constructed may give.
Values == {"v1", "v2"}
WildValue == "wildT"

Slots == 1..NumSlots
Builds == {"debug", "debug_ndebug", "release"}

VARIABLES
  build,   \* which macros the translation unit was compiled with
  obj,     \* the objects: slot -> object record
  abort,   \* "none", or the assertion that ended the program
  last,    \* the most recent call: [op, id, ret]
  chain,   \* a coroutine that returns GLExpected<T>: its frame and return object
  twin,    \* one program run under two builds: [turn, call, d, r]
  drv,     \* the driver: the names that are live objects, by kind
  hnd,     \* the Owned handles: slot -> [kind, id, n]
  clip     \* the clipboard: [store, kind, hold]

\* The state beside the objects of GLError.h's three classes.
ext == <<chain, twin, drv, hnd, clip>>

vars == <<build, obj, abort, last, chain, twin, drv, hnd, clip>>

DEBUG == build \in {"debug", "debug_ndebug"}
Asserts == build = "debug"

(***************************************************************************)
(* Objects.  One record shape for the three classes:                       *)
(*   kind  "dead" | "GLError" | "Expected" (GLExpected<T>) | "Void"        *)
(*   word  the GLenum _error (of the GLError member for "Void")            *)
(*   un    the storage beside it: GLError::_context, or GLExpected<T>'s    *)
(*         union { const char* _context; T _result; } with m the member    *)
(*         last written ("none": never written)                            *)
(* and, beside the program's state, the history the properties speak of:   *)
(*   g     of the error or value the object carries, handed on with it     *)
(*         when it is moved or converted:                                  *)
(*           chk  has_value(), has_error() or log() was called on it       *)
(*           tk   take() was called on it (by the caller)                  *)
(*           org  the code and context it was created with ("value" for    *)
(*                a payload)                                               *)
(*   first of the object itself: what its first take() found in it         *)
(*         ("no": take() not called since it was constructed or assigned)  *)
(***************************************************************************)
Ctx(p) == [m |-> "ctx", v |-> p]
Val(x) == [m |-> "val", v |-> x]
Uninit == [m |-> "none", v |-> "indeterminate"]

NoOrg == [c |-> W(0, 0), s |-> "none"]
G0 == [chk |-> FALSE, tk |-> FALSE, org |-> NoOrg]
Created(err, context) == [chk |-> FALSE, tk |-> FALSE, org |-> [c |-> err, s |-> context]]
\* The history of a value a GLExpected<T> was constructed from.
FromValue == Created(W(0, 0), "value")
IsFromValue(o) == o.g.org.s = "value"

Mk(k, w, u, g) == [kind |-> k, word |-> w, un |-> u, g |-> g, first |-> "no"]

Dead == Mk("dead", W(0, 0), Uninit, G0)

\* What reading _context gives: the pointer when it is the member last
\* written, otherwise any pointer.
ReadCtx(u) == IF u.m = "ctx" THEN {u.v} ELSE Pointers

\* What reading _result gives.
ReadVal(u) == IF u.m = "val" THEN {u.v} ELSE Values \cup {WildValue}

NoRet == [b |-> FALSE, v |-> "none", at |-> 0, arg |-> "none"]
RetBool(x) == [NoRet EXCEPT !.b = x, !.v = "bool"]
RetVal(x, a) == [NoRet EXCEPT !.v = x, !.arg = a]
RetAt(i) == [NoRet EXCEPT !.v = "object", !.at = i]

\* Constructors build into the lowest free slot.
Free(i) == /\ obj[i].kind = "dead"
           /\ \A j \in Slots : j < i => obj[j].kind # "dead"

Running == abort = "none"

\* The call op on object id returned ret and left the objects as o.
Done(o, op, id, ret) ==
  /\ obj' = o
  /\ last' = [op |-> op, id |-> id, ret |-> ret]
  /\ UNCHANGED <<build, abort>>
  /\ UNCHANGED ext

\* The call op on object id failed assertion a: the program aborts.
Fail(op, id, a) ==
  /\ abort' = a
  /\ last' = [op |-> op, id |-> id, ret |-> NoRet]
  /\ UNCHANGED <<build, obj>>
  /\ UNCHANGED ext

\* ----------------------------------------------------------------- GLError

\* GLError::_clean()
clean(w) == IF DEBUG THEN And32(w, Not32(UNCHECKED_FLAG)) ELSE w

\* A _checked() that leaves the flag set.
checked_keeps_flag(w) == w

\* GLError::_checked(), GLExpected<T>::_checked(): the word afterwards.
checked(w) == IF DEBUG THEN And32(w, Not32(UNCHECKED_FLAG)) ELSE w

\* The word the flag-setting constructors store: err | UNCHECKED_FLAG under
\* _DEBUG, err otherwise.
Fresh(err) == IF DEBUG THEN Or32(err, UNCHECKED_FLAG) ELSE err

\* constexpr GLError() noexcept
GLError_default == Mk("GLError", Fresh(NO_ERROR), Ctx(NULL), G0)

\* GLError(GLenum err, const char* context), GLError(const char* context)
GLError_ctor(err, context) ==
  Mk("GLError", Fresh(err), Ctx(context), Created(err, context))

\* GLError(std::in_place_t, GLenum err, const char* context)
GLError_in_place(err, context, g) == Mk("GLError", err, Ctx(context), g)

\* GLError(GLError&& right): the new object, and right afterwards.
GLError_move(right) ==
  [self  |-> Mk("GLError", right.word, right.un, right.g),
   right |-> [right EXCEPT !.word = NO_ERROR, !.un = Ctx(NULL), !.g = G0]]

\* ~GLError(): the assertion assert(!(_error & UNCHECKED_FLAG)) fails.
GLError_dtor_fails(e) == HasFlag(e.word)

\* GLError::operator=(GLError&& right), past this->~GLError(): [self, right].
GLError_assign(self, right) ==
  [self  |-> [self EXCEPT !.word = right.word, !.un = right.un, !.g = right.g,
                          !.first = "no"],
   right |-> [right EXCEPT !.word = NO_ERROR, !.un = Ctx(NULL), !.g = G0]]

\* GLError::has_error(): _checked(), then the test on _clean().
GLError_has_error(e) ==
  LET w == checked(e.word)
  IN [self |-> [e EXCEPT !.word = w, !.g.chk = TRUE],
      ret  |-> clean(w) # INVALID_ERROR /\ clean(w) # NO_ERROR]

\* GLError::peek()
GLError_peek(e) == clean(e.word) = NO_ERROR

\* std::pair<GLenum, const char*> GLError::take() &&
\* The pair { e, _context } is built after _context = nullptr.
GLError_take(e) ==
  IF e.word = INVALID_ERROR
  THEN [err |-> INVALID_ERROR, ctx |-> NULL, self |-> e]
  ELSE LET e1 == [e EXCEPT !.word = NO_ERROR]
           e2 == [e1 EXCEPT !.un = Ctx(NULL)]
       IN [err |-> e.word, ctx |-> e2.un.v, self |-> [e2 EXCEPT !.g = G0]]

IsErr(i) == obj[i].kind = "GLError"

NewError(i, err, context) ==
  /\ Running /\ Free(i)
  /\ Done([obj EXCEPT ![i] = GLError_ctor(err, context)], "GLError", i, NoRet)

DefaultError(i) ==
  /\ Running /\ Free(i)
  /\ Done([obj EXCEPT ![i] = GLError_default], "GLError()", i, NoRet)

\* GLError j move-constructed from the GLError i.
MoveError(j, i) ==
  /\ Running /\ IsErr(i) /\ Free(j)
  /\ LET r == GLError_move(obj[i])
     IN Done([obj EXCEPT ![j] = r.self, ![i] = r.right], "GLError(GLError&&)", j, RetAt(i))

\* GLError j = std::move(GLError i)
AssignError(j, i) ==
  /\ Running /\ IsErr(i) /\ IsErr(j) /\ i # j
  /\ IF Asserts /\ GLError_dtor_fails(obj[j])
     THEN Fail("GLError::operator=", j, "unchecked")
     ELSE LET r == GLError_assign(obj[j], obj[i])
          IN Done([obj EXCEPT ![j] = r.self, ![i] = r.right], "GLError::operator=", j, RetAt(i))

ErrorHasError(i) ==
  /\ Running /\ IsErr(i)
  /\ LET r == GLError_has_error(obj[i])
     IN Done([obj EXCEPT ![i] = r.self], "GLError::has_error", i, RetBool(r.ret))

DestroyError(i) ==
  /\ Running /\ IsErr(i)
  /\ IF Asserts /\ GLError_dtor_fails(obj[i])
     THEN Fail("~GLError", i, "unchecked")
     ELSE Done([obj EXCEPT ![i] = Dead], "~GLError", i, NoRet)

\* ------------------------------------------------------------ GLExpected<T>

\* GLExpected<T>::peek()
peek(w) == IF DEBUG THEN And32(w, Not32(UNCHECKED_FLAG)) = NO_ERROR ELSE w = NO_ERROR

\* constexpr GLExpected() : _error(GLError::INVALID_ERROR) {}
GLExpected_default == Mk("Expected", INVALID_ERROR, Uninit, G0)

\* A value constructor that stores GL_NO_ERROR without the flag.
GLExpected_value_no_flag(x) == Mk("Expected", NO_ERROR, Val(x), FromValue)

\* GLExpected(U&& right) and the two in_place constructors:
\* _error(GL_NO_ERROR | GLError::UNCHECKED_FLAG), _result(right)
GLExpected_value(x) == Mk("Expected", Or32(NO_ERROR, UNCHECKED_FLAG), Val(x), FromValue)

\* GLExpected(GLError&& right): the new object, and right afterwards.
GLExpected_from_error(right) ==
  LET t == GLError_take(right)
  IN [self  |-> Mk("Expected", t.err,
                   IF t.err = INVALID_ERROR THEN Uninit ELSE Ctx(t.ctx), right.g),
      right |-> t.self]

\* A move that leaves the source as it was.
GLExpected_move_keeps_source(right) ==
  {[self |-> Mk("Expected", right.word, right.un, right.g), right |-> right]}

\* explicit GLExpected(GLExpected&& right): the outcomes [self, right].
\* A payload T is taken to be movable by copy (the moved-from T keeps its value).
GLExpected_move(right) ==
  IF right.word = INVALID_ERROR
  THEN {[self |-> Mk("Expected", right.word, Uninit, G0), right |-> right]}
  ELSE IF peek(right.word)
  THEN {[self |-> Mk("Expected", right.word, Val(x), right.g), right |-> right]
          : x \in ReadVal(right.un)}
  ELSE {[self  |-> Mk("Expected", right.word, Ctx(c), right.g),
         right |-> [right EXCEPT !.un = Ctx(NULL), !.word = INVALID_ERROR, !.g = G0]]
          : c \in ReadCtx(right.un)}

\* A destructor without the assertion.
GLExpected_dtor_never(o) == FALSE

\* ~GLExpected(): the assertion assert(!(_error & UNCHECKED_FLAG)) is reached
\* and fails.
GLExpected_dtor_fails(o) == o.word # INVALID_ERROR /\ HasFlag(o.word)

\* GLExpected<T>::has_value(): _checked(), then peek().
has_value(o) ==
  LET w == checked(o.word)
  IN [self |-> [o EXCEPT !.word = w, !.g.chk = TRUE], ret |-> peek(w)]

\* GLExpected<T>::has_error(): !has_value() && _error != INVALID_ERROR
has_error(o) ==
  LET h == has_value(o)
  IN [self |-> h.self, ret |-> (~h.ret) /\ h.self.word # INVALID_ERROR]

\* value(), operator*, operator->: the assertion assert(peek()) fails.
value_fails(o) == ~peek(o.word)

\* value(): what return _result hands back.
value(o) == ReadVal(o.un)

\* value_or(U&& right): the object afterwards and what may be returned.
value_or(o, right) ==
  [self |-> o, ret |-> IF peek(o.word) THEN ReadVal(o.un) ELSE {right}]

\* GLExpected<T>::log(): _checked(); the GLError made by _grab() is a temporary.
log(o) == [o EXCEPT !.word = checked(o.word), !.g.chk = TRUE]

\* _grab(): GLError(std::in_place, _error, peek() ? nullptr : _context)
grab(o) ==
  {GLError_in_place(o.word, c, o.g)
     : c \in IF peek(o.word) THEN {NULL} ELSE ReadCtx(o.un)}

\* take(): the assertion assert(_error != INVALID_ERROR) fails.
take_fails(o) == o.word = INVALID_ERROR

\* What a take() finds in o, by the code of its word.
Found(o) ==
  IF clean(o.word) = NO_ERROR THEN "value"
  ELSE IF clean(o.word) = INVALID_ERROR THEN "invalid" ELSE "error"

Noted(o) == IF o.first = "no" THEN Found(o) ELSE o.first

\* A take() that leaves the error in the Result.
take_keeps_error(o) ==
  {[self |-> [o EXCEPT !.g.tk = TRUE, !.first = Noted(o)],
    ret  |-> [e EXCEPT !.g.tk = TRUE]] : e \in grab(o)}

\* take(): the outcomes [self, ret].
take(o) ==
  {[self |-> IF ~peek(o.word)
             THEN [o EXCEPT !.word = INVALID_ERROR, !.un = Ctx(NULL), !.g = G0,
                            !.first = Noted(o)]
             ELSE [o EXCEPT !.g.tk = TRUE, !.first = Noted(o)],
    ret  |-> [e EXCEPT !.g.tk = TRUE]] : e \in grab(o)}

IsExp(i) == obj[i].kind = "Expected"

NewExpected(i) ==
  /\ Running /\ DEBUG /\ Free(i)
  /\ Done([obj EXCEPT ![i] = GLExpected_default], "GLExpected()", i, NoRet)

NewExpectedValue(i, x) ==
  /\ Running /\ DEBUG /\ Free(i)
  /\ Done([obj EXCEPT ![i] = GLExpected_value(x)], "GLExpected(U&&)", i, NoRet)

\* GLExpected<T> j constructed from the GLError i.
NewExpectedError(j, i) ==
  /\ Running /\ DEBUG /\ Free(j) /\ IsErr(i)
  /\ LET r == GLExpected_from_error(obj[i])
     IN Done([obj EXCEPT ![j] = r.self, ![i] = r.right], "GLExpected(GLError&&)", j, RetAt(i))

\* GLExpected<T> j move-constructed from the GLExpected<T> i.
MoveExpected(j, i) ==
  /\ Running /\ Free(j) /\ IsExp(i)
  /\ \E r \in GLExpected_move(obj[i]) :
       Done([obj EXCEPT ![j] = r.self, ![i] = r.right], "GLExpected(GLExpected&&)", j, RetAt(i))

HasValue(i) ==
  /\ Running /\ IsExp(i)
  /\ LET r == has_value(obj[i])
     IN Done([obj EXCEPT ![i] = r.self], "has_value", i, RetBool(r.ret))

HasError(i) ==
  /\ Running /\ IsExp(i)
  /\ LET r == has_error(obj[i])
     IN Done([obj EXCEPT ![i] = r.self], "has_error", i, RetBool(r.ret))

Value(i) ==
  /\ Running /\ IsExp(i)
  /\ IF Asserts /\ value_fails(obj[i])
     THEN Fail("value", i, "peek")
     ELSE \E x \in value(obj[i]) : Done(obj, "value", i, RetVal(x, "none"))

ValueOr(i, right) ==
  /\ Running /\ IsExp(i)
  /\ LET r == value_or(obj[i], right)
     IN \E x \in r.ret : Done([obj EXCEPT ![i] = r.self], "value_or", i, RetVal(x, right))

Log(i) ==
  /\ Running /\ IsExp(i)
  /\ Done([obj EXCEPT ![i] = log(obj[i])], "log", i, NoRet)

\* take() on the GLExpected<T> i; the GLError it returns is put in slot j.
Take(i, j) ==
  /\ Running /\ IsExp(i) /\ Free(j)
  /\ IF Asserts /\ take_fails(obj[i])
     THEN Fail("take", i, "invalid")
     ELSE \E r \in take(obj[i]) :
            Done([obj EXCEPT ![i] = r.self, ![j] = r.ret], "take", i, RetAt(j))

DestroyExpected(i) ==
  /\ Running /\ IsExp(i)
  /\ IF Asserts /\ GLExpected_dtor_fails(obj[i])
     THEN Fail("~GLExpected", i, "unchecked")
     ELSE Done([obj EXCEPT ![i] = Dead], "~GLExpected", i, NoRet)

\* --------------------------------------------------------- GLExpected<void>
\* The specialization holds one member, GLError _error.  Its mem-initializers
\* and take() name GLError as if it were a base class; they are read as
\* acting on the member _error, the only GLError the object has.

\* GLExpected() noexcept {} and GLExpected(std::in_place_t) noexcept {}:
\* _error is default-constructed.
Void_default == [GLError_default EXCEPT !.kind = "Void"]

\* explicit GLExpected(GLExpected&& right) : GLError(std::move(right._error))
Void_move(right) ==
  LET r == GLError_move(right)
  IN [self |-> [r.self EXCEPT !.kind = "Void"], right |-> r.right]

\* GLExpected(GLError&& right) : GLError(std::move(_error)) {}
\* right is never read.  The initializer moves the object's own member into
\* itself (GLError(GLError&&) with right aliasing this ends by storing
\* GL_NO_ERROR and nullptr), or, if it does not initialize the member at all,
\* leaves _error default-constructed: the outcomes [self, right].
Void_from_error(right) ==
  {[self |-> Mk("Void", NO_ERROR, Ctx(NULL), G0), right |-> right],
   [self |-> Void_default, right |-> right]}

\* operator=(GLExpected&& right) { _error = std::move(right._error); } and
\* operator=(GLError&& right) { _error = std::move(right); }: the member's
\* GLError::operator=, past its this->~GLError().
Void_assign(self, right) == GLError_assign(self, right)

\* GLExpected<void>::has_error(): _error.has_error()
Void_has_error(o) == GLError_has_error(o)

\* GLExpected<void>::has_value(): !has_error()
Void_has_value(o) ==
  LET h == Void_has_error(o) IN [self |-> h.self, ret |-> ~h.ret]

\* operator*() const noexcept {}, value() const& {}, value() && {}:
\* there is no assertion in the body to fail.
Void_value_fails(o) == FALSE

\* GLExpected<void>::take(): return std::move(*this), the GLError moved out
\* of the member: [self, ret].
Void_take(o) ==
  LET r == GLError_move(o)
  IN [self |-> [r.right EXCEPT !.first = Noted(o)],
      ret  |-> [r.self EXCEPT !.g.tk = TRUE]]

\* ~GLExpected() {}: the member's ~GLError() runs.
Void_dtor_fails(o) == GLError_dtor_fails(o)

IsVoid(i) == obj[i].kind = "Void"

NewVoid(i) ==
  /\ Running /\ Free(i)
  /\ Done([obj EXCEPT ![i] = Void_default], "GLExpected<void>()", i, NoRet)

\* GLExpected<void> j constructed from the GLError i.
NewVoidError(j, i) ==
  /\ Running /\ Free(j) /\ IsErr(i)
  /\ \E r \in Void_from_error(obj[i]) :
       Done([obj EXCEPT ![j] = r.self, ![i] = r.right], "GLExpected<void>(GLError&&)", j, RetAt(i))

\* GLExpected<void> j move-constructed from the GLExpected<void> i.
MoveVoid(j, i) ==
  /\ Running /\ Free(j) /\ IsVoid(i)
  /\ LET r == Void_move(obj[i])
     IN Done([obj EXCEPT ![j] = r.self, ![i] = r.right], "GLExpected<void>(GLExpected&&)", j, RetAt(i))

\* GLExpected<void> j = std::move(i), i a GLExpected<void> or a GLError.
AssignVoid(j, i) ==
  /\ Running /\ IsVoid(j) /\ (IsVoid(i) \/ IsErr(i)) /\ i # j
  /\ IF Asserts /\ GLError_dtor_fails(obj[j])
     THEN Fail("void::operator=", j, "unchecked")
     ELSE LET r == Void_assign(obj[j], obj[i])
          IN Done([obj EXCEPT ![j] = r.self, ![i] = r.right], "void::operator=", j, RetAt(i))

VoidHasValue(i) ==
  /\ Running /\ IsVoid(i)
  /\ LET r == Void_has_value(obj[i])
     IN Done([obj EXCEPT ![i] = r.self], "void::has_value", i, RetBool(r.ret))

VoidHasError(i) ==
  /\ Running /\ IsVoid(i)
  /\ LET r == Void_has_error(obj[i])
     IN Done([obj EXCEPT ![i] = r.self], "void::has_error", i, RetBool(r.ret))

VoidValue(i) ==
  /\ Running /\ IsVoid(i)
  /\ IF Asserts /\ Void_value_fails(obj[i])
     THEN Fail("void::value", i, "peek")
     ELSE Done(obj, "void::value", i, NoRet)

\* take() on the GLExpected<void> i; the GLError it returns is put in slot j.
VoidTake(i, j) ==
  /\ Running /\ IsVoid(i) /\ Free(j)
  /\ LET r == Void_take(obj[i])
     IN Done([obj EXCEPT ![i] = r.self, ![j] = r.ret], "void::take", i, RetAt(j))

DestroyVoid(i) ==
  /\ Running /\ IsVoid(i)
  /\ IF Asserts /\ Void_dtor_fails(obj[i])
     THEN Fail("~GLExpected<void>", i, "unchecked")
     ELSE Done([obj EXCEPT ![i] = Dead], "~GLExpected<void>", i, NoRet)

\* ---------------------------------------------- GLExpected<T> as a coroutine
\* A coroutine whose return type is GLExpected<T>:
\*     co_await step_1(); ... co_await step_n(); co_return v;
\* GLExpected<T> declares no copy operation (both are deleted), so the two
\* places that name an lvalue GLExpected, Awaiter{ *this } and
\* *handle.promise().expected = expected, are read as the move constructor
\* and operator=(GLExpected&&), the only operations of the class that take a
\* GLExpected; expected.is_value() is read as has_value(), the one member
\* that answers that question.
MaxSteps == 3

\* What a step returns: GLExpected<T> made from a value, or from the GLError
\* of a failed driver call.
Outcomes == {[ok |-> TRUE, err |-> NO_ERROR]}
              \cup {[ok |-> FALSE, err |-> Enum(n)] : n \in DriverErrors}

Plans == UNION {[1..n -> Outcomes] : n \in 1..MaxSteps}

StepResult(o) ==
  IF o.ok THEN GLExpected_value("v1")
  ELSE GLExpected_from_error(GLError_ctor(o.err, "glGenFramebuffers")).self

\* The words an indeterminate GLenum may hold.
WildWords == Codes \cup {Or32(w, UNCHECKED_FLAG) : w \in Codes}

\* GLExpected(promise_type& promise) noexcept { promise.expected = this; }
\* initializes neither _error nor the union.
GLExpected_promise(w) == Mk("Expected", w, Uninit, G0)

\* GLExpected<T>::operator=(GLExpected&& right), past this->~GLExpected():
\* the same statements as the move constructor; the outcomes [self, right].
GLExpected_assign(self, right) ==
  {[self |-> [r.self EXCEPT !.first = "no"], right |-> r.right]
     : r \in GLExpected_move(right)}

NoChain == [pc |-> "idle", plan |-> <<>>, v |-> "none", k |-> 0, ran |-> <<>>,
            ret |-> Dead]

\* The coroutine ended on a failed assertion, having run the steps in ran.
ChainFail(ran, op, a) ==
  /\ chain' = [chain EXCEPT !.pc = "aborted", !.ran = ran]
  /\ abort' = a
  /\ last' = [op |-> op, id |-> 0, ret |-> NoRet]
  /\ UNCHANGED <<build, obj, twin, drv, hnd, clip>>

ChainDone(c, op) ==
  /\ chain' = c
  /\ last' = [op |-> op, id |-> 0, ret |-> NoRet]
  /\ UNCHANGED <<build, obj, abort, twin, drv, hnd, clip>>

\* The call of the coroutine: promise_type::get_return_object() makes the
\* return object; initial_suspend() is suspend_never, so the body starts.
Call(plan, v, w) ==
  /\ Running /\ DEBUG /\ chain.pc = "idle"
  /\ ChainDone([pc |-> "body", plan |-> plan, v |-> v, k |-> 1, ran |-> <<>>,
                ret |-> GLExpected_promise(w)], "get_return_object")

\* co_await step_k(): operator co_await(), await_ready(), then await_resume()
\* and the end of the full-expression (~Awaiter, ~GLExpected of the
\* temporary), or await_suspend(): the assignment to the return object and
\* handle.destroy(), which destroys the frame with the Awaiter and the
\* temporary in it.
Await ==
  /\ Running /\ chain.pc = "body" /\ chain.k <= Len(chain.plan)
  /\ LET t   == StepResult(chain.plan[chain.k])
         ran == Append(chain.ran, chain.k)
     IN \E m \in GLExpected_move(t) :
          LET h == has_value(m.self)
          IN IF h.ret
             THEN IF Asserts /\ value_fails(h.self)
                  THEN ChainFail(ran, "co_await", "peek")
                  ELSE IF Asserts /\ (GLExpected_dtor_fails(h.self)
                                        \/ GLExpected_dtor_fails(m.right))
                  THEN ChainFail(ran, "co_await", "unchecked")
                  ELSE ChainDone([chain EXCEPT !.k = @ + 1, !.ran = ran], "co_await")
             ELSE IF Asserts /\ GLExpected_dtor_fails(chain.ret)
                  THEN ChainFail(ran, "await_suspend", "unchecked")
                  ELSE \E a \in GLExpected_assign(chain.ret, h.self) :
                         IF Asserts /\ (GLExpected_dtor_fails(a.right)
                                          \/ GLExpected_dtor_fails(m.right))
                         THEN ChainFail(ran, "await_suspend", "unchecked")
                         ELSE ChainDone([chain EXCEPT !.pc = "returned", !.ran = ran,
                                                      !.ret = a.self], "await_suspend")

\* co_return v: return_value(GLExpected result) { *expected = std::move(result); }
\* then ~GLExpected of the parameter; final_suspend() is suspend_never.
CoReturn ==
  /\ Running /\ chain.pc = "body" /\ chain.k > Len(chain.plan)
  /\ LET result == GLExpected_value(chain.v)
     IN IF Asserts /\ GLExpected_dtor_fails(chain.ret)
        THEN ChainFail(chain.ran, "return_value", "unchecked")
        ELSE \E a \in GLExpected_assign(chain.ret, result) :
               IF Asserts /\ GLExpected_dtor_fails(a.right)
               THEN ChainFail(chain.ran, "return_value", "unchecked")
               ELSE ChainDone([chain EXCEPT !.pc = "returned", !.ret = a.self],
                              "return_value")

\* ----------------------------- assignment, emplace and swap of a Result
\* GLError::swap(GLError& right): std::swap of both members: [self, right].
GLError_swap(self, right) ==
  [self  |-> [self EXCEPT !.word = right.word, !.un = right.un, !.g = right.g],
   right |-> [right EXCEPT !.word = self.word, !.un = self.un, !.g = self.g]]

\* GLExpected<void>::swap(GLExpected& right) { _error.swap(right._error); }
Void_swap(self, right) == GLError_swap(self, right)

\* GLExpected<T>::operator=(U&& right), past this->~GLExpected():
\* _error = GL_NO_ERROR | UNCHECKED_FLAG; new(&_result) T(right)
GLExpected_assign_value(self, x) ==
  [self EXCEPT !.word = Or32(NO_ERROR, UNCHECKED_FLAG), !.un = Val(x),
               !.g = FromValue, !.first = "no"]

\* GLExpected<T>::operator=(GLError&& e), past this->~GLExpected():
\* auto [e, s] = std::move(e).take(); _error = e; _context = s;
\* the pair is read as what take() on the parameter returns: [self, right].
GLExpected_assign_error(self, right) ==
  LET t == GLError_take(right)
  IN [self  |-> [self EXCEPT !.word = t.err, !.un = Ctx(t.ctx), !.g = right.g,
                             !.first = "no"],
      right |-> t.self]

\* emplace(Args&&...), past this->~GLExpected(): new(&_result) T(args...).
\* _error is not written.
emplace(o, x) == [o EXCEPT !.un = Val(x), !.g = FromValue, !.first = "no"]

\* emplace has no return statement: the T& the caller is handed refers to
\* the new payload or to anything else.
emplace_ret(x) == {x, WildValue}

\* target._Construct(std::move(*source)) in swap.  The class declares no
\* member _Construct.  Whatever it is, it is handed the payload T alone, so
\* the word it may store in _error cannot depend on the source's word: it
\* stores none (as emplace does), or the word of a value with or without the
\* flag; and it constructs _result from the payload.
ConstructWords(w) == {w, NO_ERROR, Or32(NO_ERROR, UNCHECKED_FLAG)}

GLExpected_Construct(target, x) ==
  {[target EXCEPT !.word = w, !.un = Val(x)] : w \in ConstructWords(target.word)}

\* swap, the branch valid != right.peek(): source is the operand for which
\* peek() is true, target the other: the outcomes [source, target].
\*   auto err = target._error; auto ctx = target._context;
\*   target._Construct(std::move(*source));
\*   source._error = err;
\*   if(source._error != INVALID_ERROR) source._context = ctx;
swap_mixed(source, target) ==
  {[source |-> [source EXCEPT !.word = target.word,
                              !.un = IF target.word # INVALID_ERROR
                                     THEN Ctx(c) ELSE source.un,
                              !.g = target.g],
    target |-> [t EXCEPT !.g = source.g]]
     : c \in ReadCtx(target.un),
       t \in UNION {GLExpected_Construct(target, x) : x \in ReadVal(source.un)}}

\* A swap that hands both operands the state of the right one.
swap_copies(self, right) ==
  {[self |-> [self EXCEPT !.word = right.word, !.un = right.un, !.g = right.g],
    right |-> right]}

\* GLExpected<T>::swap(GLExpected& right): the outcomes [self, right].
swap(self, right) ==
  IF peek(self.word) = peek(right.word)
  THEN IF peek(self.word)
       THEN {[self  |-> [self EXCEPT !.word = right.word, !.un = Val(y), !.g = right.g],
              right |-> [right EXCEPT !.word = self.word, !.un = Val(x), !.g = self.g]]
               : x \in ReadVal(self.un), y \in ReadVal(right.un)}
       ELSE {[self  |-> [self EXCEPT !.word = right.word, !.un = Ctx(d), !.g = right.g],
              right |-> [right EXCEPT !.word = self.word, !.un = Ctx(c), !.g = self.g]]
               : c \in ReadCtx(self.un), d \in ReadCtx(right.un)}
  ELSE IF peek(self.word)
  THEN {[self |-> r.source, right |-> r.target] : r \in swap_mixed(self, right)}
  ELSE {[self |-> r.target, right |-> r.source] : r \in swap_mixed(right, self)}

\* GLError i .swap(GLError j)
SwapError(i, j) ==
  /\ Running /\ IsErr(i) /\ IsErr(j) /\ i # j
  /\ LET r == GLError_swap(obj[i], obj[j])
     IN Done([obj EXCEPT ![i] = r.self, ![j] = r.right], "GLError::swap", i, RetAt(j))

\* GLExpected<void> i .swap(GLExpected<void> j)
SwapVoid(i, j) ==
  /\ Running /\ IsVoid(i) /\ IsVoid(j) /\ i # j
  /\ LET r == Void_swap(obj[i], obj[j])
     IN Done([obj EXCEPT ![i] = r.self, ![j] = r.right], "void::swap", i, RetAt(j))

\* GLExpected<T> j = std::move(GLExpected<T> i)
AssignExpected(j, i) ==
  /\ Running /\ IsExp(j) /\ IsExp(i) /\ i # j
  /\ IF Asserts /\ GLExpected_dtor_fails(obj[j])
     THEN Fail("operator=(GLExpected&&)", j, "unchecked")
     ELSE \E r \in GLExpected_assign(obj[j], obj[i]) :
            Done([obj EXCEPT ![j] = r.self, ![i] = r.right],
                 "operator=(GLExpected&&)", j, RetAt(i))

\* GLExpected<T> j = x
AssignExpectedValue(j, x) ==
  /\ Running /\ IsExp(j)
  /\ IF Asserts /\ GLExpected_dtor_fails(obj[j])
     THEN Fail("operator=(U&&)", j, "unchecked")
     ELSE Done([obj EXCEPT ![j] = GLExpected_assign_value(obj[j], x)],
               "operator=(U&&)", j, NoRet)

\* GLExpected<T> j = std::move(GLError i)
AssignExpectedError(j, i) ==
  /\ Running /\ IsExp(j) /\ IsErr(i)
  /\ IF Asserts /\ GLExpected_dtor_fails(obj[j])
     THEN Fail("operator=(GLError&&)", j, "unchecked")
     ELSE LET r == GLExpected_assign_error(obj[j], obj[i])
          IN Done([obj EXCEPT ![j] = r.self, ![i] = r.right],
                  "operator=(GLError&&)", j, RetAt(i))

Emplace(i, x) ==
  /\ Running /\ IsExp(i)
  /\ IF Asserts /\ GLExpected_dtor_fails(obj[i])
     THEN Fail("emplace", i, "unchecked")
     ELSE \E y \in emplace_ret(x) :
            Done([obj EXCEPT ![i] = emplace(obj[i], x)], "emplace", i, RetVal(y, x))

\* GLExpected<T> i .swap(GLExpected<T> j)
Swap(i, j) ==
  /\ Running /\ IsExp(i) /\ IsExp(j) /\ i # j
  /\ \E r \in swap(obj[i], obj[j]) :
       Done([obj EXCEPT ![i] = r.self, ![j] = r.right], "swap", i, RetAt(j))

\* ------------------------------------------- one program under two builds
\* The same calls on GLError objects made in a translation unit compiled
\* with _DEBUG (assertions on) and in one compiled without it.  build names
\* the translation unit whose run is advanced: a call is applied to the debug
\* run d and then, the same call, to the release run r.
R0 == [b |-> FALSE, w |-> NO_ERROR, c |-> NULL]

Run0 == [o |-> [i \in Slots |-> Dead], ret |-> R0]

NoCall == [op |-> "none", i |-> 1, j |-> 1, err |-> NO_ERROR]

\* bool operator==(const GLError& e) { return e._error == _error; }
GLError_eq(self, e) == e.word = self.word

\* bool operator!=(const GLError& e) { return e._error != _error; }
GLError_ne(self, e) == e.word # self.word

Calls ==
  {[NoCall EXCEPT !.op = "GLError", !.i = i, !.err = err] : i \in Slots, err \in Codes}
    \cup {c \in {[NoCall EXCEPT !.op = op, !.i = i, !.j = j]
                    : op \in {"GLError(GLError&&)", "operator=", "operator==", "operator!="},
                      i \in Slots, j \in Slots} : c.i # c.j}
    \cup {[NoCall EXCEPT !.op = op, !.i = i]
            : op \in {"GLError()", "has_error", "peek", "take", "~GLError"}, i \in Slots}

FreeIn(o, i) == /\ o[i].kind = "dead"
                /\ \A j \in Slots : j < i => o[j].kind # "dead"

\* The call can be made on the objects o.
Applies(c, o) ==
  CASE c.op \in {"GLError", "GLError()"} -> FreeIn(o, c.i)
    [] c.op = "GLError(GLError&&)" -> FreeIn(o, c.i) /\ o[c.j].kind = "GLError"
    [] c.op \in {"operator=", "operator==", "operator!="} ->
         o[c.i].kind = "GLError" /\ o[c.j].kind = "GLError"
    [] OTHER -> o[c.i].kind = "GLError"

\* The call fails assert(!(_error & UNCHECKED_FLAG)).
Asserted(c, o) ==
  Asserts /\ c.op \in {"operator=", "~GLError"} /\ GLError_dtor_fails(o[c.i])

\* The objects after the call, and what it returned.
Apply(c, o) ==
  CASE c.op = "GLError" ->
         [o |-> [o EXCEPT ![c.i] = GLError_ctor(c.err, NULL)], ret |-> R0]
    [] c.op = "GLError()" ->
         [o |-> [o EXCEPT ![c.i] = GLError_default], ret |-> R0]
    [] c.op = "GLError(GLError&&)" ->
         LET r == GLError_move(o[c.j])
         IN [o |-> [o EXCEPT ![c.i] = r.self, ![c.j] = r.right], ret |-> R0]
    [] c.op = "operator=" ->
         LET r == GLError_assign(o[c.i], o[c.j])
         IN [o |-> [o EXCEPT ![c.i] = r.self, ![c.j] = r.right], ret |-> R0]
    [] c.op = "operator==" ->
         [o |-> o, ret |-> [R0 EXCEPT !.b = GLError_eq(o[c.i], o[c.j])]]
    [] c.op = "operator!=" ->
         [o |-> o, ret |-> [R0 EXCEPT !.b = GLError_ne(o[c.i], o[c.j])]]
    [] c.op = "has_error" ->
         LET r == GLError_has_error(o[c.i])
         IN [o |-> [o EXCEPT ![c.i] = r.self], ret |-> [R0 EXCEPT !.b = r.ret]]
    [] c.op = "peek" ->
         [o |-> o, ret |-> [R0 EXCEPT !.b = GLError_peek(o[c.i])]]
    [] c.op = "take" ->
         LET t == GLError_take(o[c.i])
         IN [o |-> [o EXCEPT ![c.i] = t.self], ret |-> [R0 EXCEPT !.w = t.err, !.c = t.ctx]]
    [] OTHER -> [o |-> [o EXCEPT ![c.i] = Dead], ret |-> R0]

NoTwin == [turn |-> "d", call |-> NoCall, d |-> Run0, r |-> Run0]

\* The next call of the program, made in the debug build.  A call that fails
\* an assertion there ends the program.
RunDebug(c) ==
  /\ Running /\ build = "debug" /\ twin.turn = "d"
  /\ Applies(c, twin.d.o)
  /\ IF Asserted(c, twin.d.o)
     THEN /\ abort' = "unchecked"
          /\ UNCHANGED <<build, twin>>
     ELSE /\ twin' = [twin EXCEPT !.turn = "r", !.call = c, !.d = Apply(c, twin.d.o)]
          /\ build' = "release"
          /\ UNCHANGED abort
  /\ UNCHANGED <<obj, last, chain, drv, hnd, clip>>

\* The same call, made in the release build.
RunRelease ==
  /\ Running /\ build = "release" /\ twin.turn = "r"
  /\ Applies(twin.call, twin.r.o)
  /\ twin' = [twin EXCEPT !.turn = "d", !.r = Apply(twin.call, twin.r.o)]
  /\ build' = "debug"
  /\ UNCHANGED <<obj, abort, last, chain, drv, hnd, clip>>

\* ------------------------------------------------------------ Owned handles
\* FrameBuffer and ProgramObject derive from the ownership wrapper
\* Ref<&Is, &Delete> / GLRef<Is, Delete>; the wrapper is described by its
\* contract: is_valid() is "the id is non-null and the validity predicate
\* accepts it", a move transfers the id and nulls the source, the destructor
\* calls the release function if is_valid().
NumHandles == 2
MaxIds == 2
MaxGen == 2
NullId == 0
MaxColorAttachments == 2

Handles == 1..NumHandles
Ids == 1..MaxIds
Kinds == {"FrameBuffer", "ProgramObject"}
AllKinds == Kinds \cup {"ShaderObject"}

\* The driver.  live[k] are the names of kind k that are objects now;
\* gen[k][i] and rel[k][i] count the times the name was handed out and the
\* times a release function deleted the object it names; bad records a
\* release function called with a name that is no object, raw a handle
\* constructed from a name by the caller (not by a factory).
Drv0 == [live |-> [k \in AllKinds |-> {}],
         gen  |-> [k \in AllKinds |-> [i \in Ids |-> 0]],
         rel  |-> [k \in AllKinds |-> [i \in Ids |-> 0]],
         bad  |-> FALSE,
         raw  |-> FALSE,
         att  |-> [i \in Ids |-> {}],
         lnk  |-> [i \in Ids |-> FALSE]]

\* glGenFramebuffers / glCreateProgram / glCreateShader handing out name i.
Gen(k, d, i) == [d EXCEPT !.live[k] = @ \cup {i}, !.gen[k][i] = @ + 1]

\* glIsFramebuffer(i) == GL_TRUE, glIsProgram(i) == GL_TRUE
Is(k, d, i) == i \in d.live[k]

\* glDeleteFramebuffers(1, &i), glDeleteProgram(i): a name that is no object
\* is ignored by the driver.
Delete(k, d, i) ==
  IF i \in d.live[k]
  THEN [d EXCEPT !.live[k] = @ \ {i}, !.rel[k][i] = @ + 1]
  ELSE [d EXCEPT !.bad = TRUE]

\* A predicate that accepts every name.
IsFrameBuffer_any(d, i) == TRUE

\* static bool IsFrameBuffer(GLuint i)
IsFrameBuffer(d, i) == Is("FrameBuffer", d, i)

\* A release function that deletes nothing.
DeleteFrameBuffer_none(d, i) == d

\* static void DeleteFrameBuffer(GLuint i)
DeleteFrameBuffer(d, i) == Delete("FrameBuffer", d, i)

\* A predicate that accepts no name.
IsProgramObj_none(d, i) == FALSE

\* static constexpr bool IsProgramObj(GLuint i)
IsProgramObj(d, i) == Is("ProgramObject", d, i)

\* static constexpr void DeleteProgramObj(GLuint i): a deleted program lets
\* go of its shaders.
DeleteProgramObj(d, i) ==
  LET e == Delete("ProgramObject", d, i)
  IN IF i \in d.live["ProgramObject"]
     THEN [e EXCEPT !.att[i] = {}, !.lnk[i] = FALSE]
     ELSE e

\* The predicate and the release function a handle type is instantiated with.
IS(k, d, i) ==
  CASE k = "FrameBuffer" -> IsFrameBuffer(d, i)
    [] k = "ProgramObject" -> IsProgramObj(d, i)
    [] OTHER -> Is(k, d, i)

DELETE(k, d, i) ==
  CASE k = "FrameBuffer" -> DeleteFrameBuffer(d, i)
    [] k = "ProgramObject" -> DeleteProgramObj(d, i)
    [] OTHER -> Delete(k, d, i)

NoHandle == [kind |-> "dead", id |-> NullId, n |-> 0]

\* The wrapper: is_valid()
Ref_is_valid(d, h) == h.id # NullId /\ IS(h.kind, d, h.id)

\* The wrapper's destructor: the driver afterwards.
Ref_dtor(d, h) == IF Ref_is_valid(d, h) THEN DELETE(h.kind, d, h.id) ELSE d

\* The wrapper's move constructor: the id of the new handle, and right's.
Ref_move(right) == [self |-> right.id, right |-> NullId]

\* A defaulted copy in place of the defaulted move: right keeps its id.
FrameBuffer_copy(right) == [self |-> right, right |-> right]

\* FrameBuffer(FrameBuffer&& right) = default, ProgramObject(ProgramObject&&)
\* = default: the base is moved, NumberOfColorAttachments is copied.
FrameBuffer_move(right) ==
  LET r == Ref_move(right)
  IN [self  |-> [right EXCEPT !.id = r.self],
      right |-> [right EXCEPT !.id = r.right]]

\* A handle that leaves NumberOfColorAttachments unset.
FrameBuffer_ctor_unset(k, id) == [kind |-> k, id |-> id, n |-> MaxColorAttachments + 1]

\* explicit FrameBuffer(GLuint shader) : Ref(shader), and
\* int NumberOfColorAttachments = 0; explicit ProgramObject(GLuint shader)
FrameBuffer_ctor(k, id) == [kind |-> k, id |-> id, n |-> 0]

\* GLuint ColorAttachments() { return this->NumberOfColorAttachments; }
ColorAttachments(h) == h.n

FreeHandle(i) == /\ hnd[i].kind = "dead"
                 /\ \A j \in Handles : j < i => hnd[j].kind # "dead"

Live(i) == hnd[i].kind # "dead"

\* The call op on handle id returned ret; the driver and the handles after.
Owned(d, h, op, id, ret) ==
  /\ drv' = d
  /\ hnd' = h
  /\ last' = [op |-> op, id |-> id, ret |-> ret]
  /\ UNCHANGED <<build, obj, abort, chain, twin, clip>>

\* Whether the destructor of h calls the release function.
Released(d, h) == IF Ref_is_valid(d, h) THEN "released" ELSE "none"

\* FrameBuffer fb(id) / ProgramObject p(id), and the default constructors.
Wrap(i, k, id) ==
  /\ FreeHandle(i)
  /\ Owned([drv EXCEPT !.raw = @ \/ id # NullId],
           [hnd EXCEPT ![i] = FrameBuffer_ctor(k, id)], "Ref(GLuint)", i, NoRet)

\* Handle i move-constructed from handle j.
MoveHandle(i, j) ==
  /\ FreeHandle(i) /\ Live(j)
  /\ LET r == FrameBuffer_move(hnd[j])
     IN Owned(drv, [hnd EXCEPT ![i] = r.self, ![j] = r.right], "Ref(Ref&&)", i, RetAt(j))

\* Handle i = std::move(handle j): operator=(FrameBuffer&&) = default. The
\* wrapper lets go of what it owns (its destructor's release), then takes
\* right's id and nulls right.
AssignHandle(i, j) ==
  /\ Live(i) /\ Live(j) /\ i # j /\ hnd[i].kind = hnd[j].kind
  /\ LET r == FrameBuffer_move(hnd[j])
     IN Owned(Ref_dtor(drv, hnd[i]), [hnd EXCEPT ![i] = r.self, ![j] = r.right],
              "Ref::operator=", i, [RetAt(j) EXCEPT !.arg = Released(drv, hnd[i])])

\* ~FrameBuffer() = default, ~ProgramObject() = default
DestroyHandle(i) ==
  /\ Live(i)
  /\ Owned(Ref_dtor(drv, hnd[i]), [hnd EXCEPT ![i] = NoHandle], "~Ref", i,
           [NoRet EXCEPT !.arg = Released(drv, hnd[i])])

\* ------------------------------------------------------------- FrameBuffer
AttachTypes == {"color", "depth"}

\* attach(target, type, level, zoffset, textures, n_textures) on fb, where
\* the driver fails step k (k = 0: no step fails): the outcomes [ok, fb].
\* More color images than the driver's maximum is a reported error; a
\* success on a color type makes the tracked count n_textures; after a
\* failed step the count is the old one or the images attached so far.
FrameBuffer_attach(d, fb, type, n, k) ==
  IF ~Ref_is_valid(d, fb) \/ (type = "color" /\ n > MaxColorAttachments)
  THEN {[ok |-> FALSE, fb |-> fb]}
  ELSE IF k \in 1..n
  THEN {[ok |-> FALSE, fb |-> [fb EXCEPT !.n = c]]
          : c \in {fb.n} \cup (IF type = "color" THEN {k - 1} ELSE {})}
  ELSE {[ok |-> TRUE, fb |-> [fb EXCEPT !.n = IF type = "color" THEN n ELSE @]]}

\* The names the driver can hand out for kind k.
Fresh_names(k) == {i \in Ids : i \notin drv.live[k] /\ drv.gen[k][i] < MaxGen}

\* static GLExpected<FrameBuffer> create(...): one framebuffer is allocated
\* and wrapped, the images are attached; when a step fails the local
\* FrameBuffer is destroyed on the way out and the error is returned.
\* id = NullId: the allocation itself fails.
FBCreate(i, type, n, k, id) ==
  /\ FreeHandle(i)
  /\ IF id = NullId
     THEN Owned(drv, hnd, "FrameBuffer::create", i, RetVal("error", "alloc"))
     ELSE /\ id \in Fresh_names("FrameBuffer")
          /\ LET d1 == Gen("FrameBuffer", drv, id)
             IN \E r \in FrameBuffer_attach(d1, FrameBuffer_ctor("FrameBuffer", id), type, n, k) :
                  IF r.ok
                  THEN Owned(d1, [hnd EXCEPT ![i] = r.fb], "FrameBuffer::create", i, RetAt(i))
                  ELSE Owned(Ref_dtor(d1, r.fb), hnd, "FrameBuffer::create", i,
                             RetVal("error", "attach"))

\* fb.attach(...) on the handle i.
FBAttach(i, type, n, k) ==
  /\ Live(i) /\ hnd[i].kind = "FrameBuffer"
  /\ \E r \in FrameBuffer_attach(drv, hnd[i], type, n, k) :
       Owned(drv, [hnd EXCEPT ![i] = r.fb], "FrameBuffer::attach", i,
             IF r.ok THEN RetVal("ok", "none") ELSE RetVal("error", "attach"))

\* ----------------------------------------------------------- ProgramObject
\* static GLExpected<ProgramObject> create(): fails only when the driver
\* hands out no name (id = NullId).
ProgCreate(i, id) ==
  /\ FreeHandle(i)
  /\ IF id = NullId
     THEN Owned(drv, hnd, "ProgramObject::create", i, RetVal("error", "alloc"))
     ELSE /\ id \in Fresh_names("ProgramObject")
          /\ Owned(Gen("ProgramObject", drv, id),
                   [hnd EXCEPT ![i] = FrameBuffer_ctor("ProgramObject", id)],
                   "ProgramObject::create", i, RetAt(i))

\* A ShaderObject handle for a shader the driver compiled (compileShader).
ShaderCreate(i, id) ==
  /\ FreeHandle(i)
  /\ id \in Fresh_names("ShaderObject")
  /\ Owned(Gen("ShaderObject", drv, id),
           [hnd EXCEPT ![i] = FrameBuffer_ctor("ShaderObject", id)],
           "ShaderObject::create", i, RetAt(i))

\* An attach that does not look at the shader handle.
ProgramObject_attach_unchecked(d, p, sh, rejected) ==
  [ok |-> TRUE, why |-> "none",
   d  |-> [d EXCEPT !.att[p.id] = @ \cup {sh.id}],
   sh |-> [sh EXCEPT !.id = NullId]]

\* GLExpected<void> attach(ShaderObject&& shader): fails if the program or
\* the shader handle is invalid or the driver rejects the stage combination;
\* on success the shader's ownership moves into the program.
ProgramObject_attach(d, p, sh, rejected) ==
  IF ~Ref_is_valid(d, p) THEN [ok |-> FALSE, why |-> "program", d |-> d, sh |-> sh]
  ELSE IF ~Ref_is_valid(d, sh) THEN [ok |-> FALSE, why |-> "shader", d |-> d, sh |-> sh]
  ELSE IF rejected THEN [ok |-> FALSE, why |-> "driver", d |-> d, sh |-> sh]
  ELSE [ok |-> TRUE, why |-> "none",
        d  |-> [d EXCEPT !.att[p.id] = @ \cup {sh.id}],
        sh |-> [sh EXCEPT !.id = NullId]]

\* GLExpected<void> link(): links the attached stages; with none attached,
\* or when the driver fails to link, an error, and the program stays a valid
\* handle that is not linked.
ProgramObject_link(d, p, linkable) ==
  IF ~Ref_is_valid(d, p) THEN [ok |-> FALSE, d |-> d]
  ELSE IF d.att[p.id] = {} \/ ~linkable
  THEN [ok |-> FALSE, d |-> [d EXCEPT !.lnk[p.id] = FALSE]]
  ELSE [ok |-> TRUE, d |-> [d EXCEPT !.lnk[p.id] = TRUE]]

\* bool is_valid() const noexcept: the validity of the handle.
ProgramObject_is_valid(d, p) == Ref_is_valid(d, p)

IsProg(i) == hnd[i].kind = "ProgramObject"

\* program i .attach(std::move(shader j))
ProgAttach(i, j, rejected) ==
  /\ IsProg(i) /\ hnd[j].kind = "ShaderObject"
  /\ LET r == ProgramObject_attach(drv, hnd[i], hnd[j], rejected)
     IN Owned(r.d, [hnd EXCEPT ![j] = r.sh], "ProgramObject::attach", i,
              [RetAt(j) EXCEPT !.v = IF r.ok THEN "ok" ELSE "error", !.arg = r.why])

ProgLink(i, linkable) ==
  /\ IsProg(i)
  /\ LET r == ProgramObject_link(drv, hnd[i], linkable)
     IN Owned(r.d, hnd, "ProgramObject::link", i,
              RetVal(IF r.ok THEN "ok" ELSE "error", "none"))

ProgIsValid(i) ==
  /\ IsProg(i)
  /\ Owned(drv, hnd, "ProgramObject::is_valid", i,
           RetBool(ProgramObject_is_valid(drv, hnd[i])))

\* ------------------------------------------------------------- clipboard
\* The backend's clipboard entry points as the demonstration program calls
\* them: clearClipboard, checkClipboard, putClipboard and getClipboard, keyed
\* by a clipboard kind.  The buffer a caller reads into (hold) is larger than
\* any data put, as in the caller.

MaxData == 2

Bytes == {0, 1}

\* The kinds that name one format, and the kind that names all of them.
Formats == {"FG_Clipboard_TEXT", "FG_Clipboard_WAVE", "FG_Clipboard_BITMAP"}

FG_Clipboard_ALL == "FG_Clipboard_ALL"

ClipKinds == Formats \cup {FG_Clipboard_ALL}

\* What a caller can hand to putClipboard: a buffer and a count of its bytes.
Buffers == UNION {[1..n -> Bytes] : n \in 1..MaxData}

NoData == <<>>

Clip0 ==
  [store |-> [f \in Formats |-> NoData], kind |-> FG_Clipboard_ALL,
   hold |-> NoData, put |-> [f \in Formats |-> NoData]]

\* A clear that leaves the clipboard as it was.
clearClipboard_keep(store, kind) == store

\* clearClipboard(kind): drops the data of one kind, or of every kind.
clearClipboard(store, kind) ==
  [f \in Formats |-> IF kind \in {f, FG_Clipboard_ALL} THEN NoData ELSE store[f]]

\* checkClipboard(kind): whether data of that kind, or of any kind, is there.
checkClipboard(store, kind) ==
  IF kind = FG_Clipboard_ALL
  THEN \E f \in Formats : store[f] # NoData
  ELSE store[kind] # NoData

\* putClipboard(kind, data, count): stores the first count bytes of data.
putClipboard(store, kind, data, count) ==
  [store EXCEPT ![kind] = SubSeq(data, 1, count)]

\* getClipboard(kind, target, count): copies the data of that kind into
\* target and returns how many bytes it is; 0 if there is none.
getClipboard(store, kind) ==
  [n |-> Len(store[kind]), bytes |-> store[kind]]

\* One call: the clipboard after it, the kind it named, the caller's buffer
\* and what it returned.  put is a log beside the clipboard: for each kind,
\* the bytes handed to the last putClipboard since the kind was last cleared.
Clipped(store, kind, hold, put, op, ret) ==
  /\ clip' = [store |-> store, kind |-> kind, hold |-> hold, put |-> put]
  /\ last' = [op |-> op, id |-> 0, ret |-> ret]
  /\ UNCHANGED <<build, obj, abort, chain, twin, drv, hnd>>

RetInt(n) == [NoRet EXCEPT !.v = "int", !.at = n]

ClearClipboard(kind) ==
  /\ kind \in ClipKinds
  /\ Clipped(clearClipboard(clip.store, kind), kind, clip.hold,
             [f \in Formats |-> IF kind = FG_Clipboard_ALL \/ kind = f
                                THEN NoData ELSE clip.put[f]],
             "clearClipboard", RetInt(0))

CheckClipboard(kind) ==
  /\ kind \in ClipKinds
  /\ Clipped(clip.store, kind, clip.hold, clip.put, "checkClipboard",
             RetBool(checkClipboard(clip.store, kind)))

PutClipboard(kind, data, count) ==
  /\ count \in 1..Len(data)
  /\ Clipped(putClipboard(clip.store, kind, data, count), kind, clip.hold,
             [clip.put EXCEPT ![kind] = [k \in 1..count |-> data[k]]],
             "putClipboard", RetInt(0))

GetClipboard(kind) ==
  /\ kind \in Formats
  /\ LET r == getClipboard(clip.store, kind)
     IN Clipped(clip.store, kind,
                IF r.n = 0 THEN clip.hold ELSE r.bytes, clip.put,
                "getClipboard", RetInt(r.n))

\* ----------------------------------------------------------- specification
Init ==
  /\ build \in Builds
  /\ obj = [i \in Slots |-> Dead]
  /\ abort = "none"
  /\ last = [op |-> "start", id |-> 0, ret |-> NoRet]
  /\ chain = NoChain
  /\ twin = NoTwin
  /\ drv = Drv0
  /\ hnd = [i \in Handles |-> NoHandle]
  /\ clip = Clip0

Next ==
  \/ \E i \in Slots, err \in Codes, context \in Contexts \cup {NULL} : NewError(i, err, context)
  \/ \E i \in Slots : DefaultError(i)
  \/ \E i \in Slots, j \in Slots : MoveError(j, i)
  \/ \E i \in Slots, j \in Slots : AssignError(j, i)
  \/ \E i \in Slots : ErrorHasError(i)
  \/ \E i \in Slots : DestroyError(i)
  \/ \E i \in Slots : NewExpected(i)
  \/ \E i \in Slots, x \in Values : NewExpectedValue(i, x)
  \/ \E i \in Slots, j \in Slots : NewExpectedError(j, i)
  \/ \E i \in Slots, j \in Slots : MoveExpected(j, i)
  \/ \E i \in Slots : HasValue(i)
  \/ \E i \in Slots : HasError(i)
  \/ \E i \in Slots : Value(i)
  \/ \E i \in Slots, x \in Values : ValueOr(i, x)
  \/ \E i \in Slots : Log(i)
  \/ \E i \in Slots, j \in Slots : Take(i, j)
  \/ \E i \in Slots : DestroyExpected(i)
  \/ \E i \in Slots : NewVoid(i)
  \/ \E i \in Slots, j \in Slots : NewVoidError(j, i)
  \/ \E i \in Slots, j \in Slots : MoveVoid(j, i)
  \/ \E i \in Slots, j \in Slots : AssignVoid(j, i)
  \/ \E i \in Slots : VoidHasValue(i)
  \/ \E i \in Slots : VoidHasError(i)
  \/ \E i \in Slots : VoidValue(i)
  \/ \E i \in Slots, j \in Slots : VoidTake(i, j)
  \/ \E i \in Slots : DestroyVoid(i)

Spec == Init /\ [][Next]_vars

NextChain ==
  \/ \E plan \in Plans, v \in Values, w \in WildWords : Call(plan, v, w)
  \/ Await
  \/ CoReturn

SpecChain == Init /\ [][NextChain]_vars

\* The debug build, the one in which GLExpected<T> can be instantiated.
InitResult == Init /\ build = "debug"

NextResult ==
  \/ \E i \in Slots, err \in Codes, context \in Contexts : NewError(i, err, context)
  \/ \E i \in Slots : DefaultError(i)
  \/ \E i \in Slots, j \in Slots : AssignError(j, i)
  \/ \E i \in Slots, j \in Slots : SwapError(i, j)
  \/ \E i \in Slots : ErrorHasError(i)
  \/ \E i \in Slots : DestroyError(i)
  \/ \E i \in Slots : NewExpected(i)
  \/ \E i \in Slots, x \in Values : NewExpectedValue(i, x)
  \/ \E i \in Slots, j \in Slots : NewExpectedError(j, i)
  \/ \E i \in Slots, j \in Slots : MoveExpected(j, i)
  \/ \E i \in Slots, j \in Slots : AssignExpected(j, i)
  \/ \E i \in Slots, x \in Values : AssignExpectedValue(i, x)
  \/ \E i \in Slots, j \in Slots : AssignExpectedError(j, i)
  \/ \E i \in Slots, x \in Values : Emplace(i, x)
  \/ \E i \in Slots, j \in Slots : Swap(i, j)
  \/ \E i \in Slots : HasValue(i)
  \/ \E i \in Slots, j \in Slots : Take(i, j)
  \/ \E i \in Slots : DestroyExpected(i)
  \/ \E i \in Slots : NewVoid(i)
  \/ \E i \in Slots, j \in Slots : MoveVoid(j, i)
  \/ \E i \in Slots, j \in Slots : AssignVoid(j, i)
  \/ \E i \in Slots, j \in Slots : SwapVoid(i, j)
  \/ \E i \in Slots : VoidHasError(i)
  \/ \E i \in Slots : DestroyVoid(i)

SpecResult == InitResult /\ [][NextResult]_vars

InitBuilds == Init /\ build = "debug"

NextBuilds ==
  \/ \E c \in Calls : RunDebug(c)
  \/ RunRelease

SpecBuilds == InitBuilds /\ [][NextBuilds]_vars

NextOwned ==
  \/ \E i \in Handles, k \in Kinds, id \in Ids \cup {NullId} : Wrap(i, k, id)
  \/ \E i \in Handles, j \in Handles : MoveHandle(i, j)
  \/ \E i \in Handles, j \in Handles : AssignHandle(i, j)
  \/ \E i \in Handles : DestroyHandle(i)
  \/ \E i \in Handles, type \in AttachTypes, n \in 0..(MaxColorAttachments + 1),
        id \in Ids \cup {NullId} : \E k \in 0..n : FBCreate(i, type, n, k, id)
  \/ \E i \in Handles, type \in AttachTypes, n \in 0..(MaxColorAttachments + 1) :
        \E k \in 0..n : FBAttach(i, type, n, k)
  \/ \E i \in Handles, id \in Ids \cup {NullId} : ProgCreate(i, id)

\* The handles are the same in every build.
InitOwned == Init /\ build = "release"

SpecOwned == InitOwned /\ [][NextOwned]_vars

NextProgram ==
  \/ \E i \in Handles, id \in Ids \cup {NullId} : ProgCreate(i, id)
  \/ \E i \in Handles, id \in Ids : ShaderCreate(i, id)
  \/ \E i \in Handles, j \in Handles, rejected \in BOOLEAN : ProgAttach(i, j, rejected)
  \/ \E i \in Handles, linkable \in BOOLEAN : ProgLink(i, linkable)
  \/ \E i \in Handles : ProgIsValid(i)
  \/ \E i \in Handles, j \in Handles : MoveHandle(i, j)
  \/ \E i \in Handles : DestroyHandle(i)

SpecProgram == InitOwned /\ [][NextProgram]_vars

NextClip ==
  \/ \E kind \in ClipKinds : ClearClipboard(kind)
  \/ \E kind \in ClipKinds : CheckClipboard(kind)
  \/ \E kind \in Formats, data \in Buffers, count \in 1..MaxData :
        PutClipboard(kind, data, count)
  \/ \E kind \in Formats : GetClipboard(kind)

SpecClip == InitOwned /\ [][NextClip]_vars

\* ------------------------------------------------------------------ claims
\* The three states of a Result, by the code of its error word.
HoldsValue(o) == clean(o.word) = NO_ERROR
Consumed(o) == clean(o.word) = INVALID_ERROR
HoldsError(o) == ~HoldsValue(o) /\ ~Consumed(o)

DtorOps == {"~GLError", "~GLExpected", "~GLExpected<void>"}
TakeOps == {"take", "void::take"}
FromErrorOps == {"GLExpected(GLError&&)", "GLExpected<void>(GLError&&)"}

\* has_value() / has_error() as a call on o would answer now.
AnswersValue(o) == IF o.kind = "Void" THEN Void_has_value(o).ret ELSE has_value(o).ret
AnswersError(o) == IF o.kind = "Void" THEN Void_has_error(o).ret ELSE has_error(o).ret

\* C1 as stated: in a debug build, destroying a GLError or Result that holds
\* an error fails the destructor assertion if and only if none of has_value(),
\* has_error(), log() or take() was called on that error since it was
\* produced, calls on earlier holders counted.
C1_AsStated ==
  [][\A i \in Slots :
       (build = "debug" /\ last'.op \in DtorOps /\ last'.id = i /\ HoldsError(obj[i]))
         => ((abort' = "unchecked") <=> ~(obj[i].g.chk \/ obj[i].g.tk))]_vars

\* C1 amended: in a debug build, destroying a GLError or Result that holds an
\* error fails the destructor assertion if and only if none of has_value(),
\* has_error() or log() was called on that error since it was produced, calls
\* on earlier holders counted; take() does not count.
C1_UncheckedErrorAsserts ==
  [][\A i \in Slots :
       (build = "debug" /\ last'.op \in DtorOps /\ last'.id = i /\ HoldsError(obj[i]))
         => ((abort' = "unchecked") <=> ~obj[i].g.chk)]_vars

\* C1 witness: the destructor of a GLError returned by take(), never
\* inspected, has failed its assertion.
C1_Witness ==
  /\ build = "debug" /\ abort = "unchecked" /\ last.op = "~GLError"
  /\ HoldsError(obj[last.id]) /\ obj[last.id].g.tk /\ ~obj[last.id].g.chk

\* C2 as stated: destroying a Result that was constructed from a value never
\* fails an assertion.
C2_AsStated ==
  (abort = "unchecked" /\ last.op = "~GLExpected")
    => ~(HoldsValue(obj[last.id]) /\ IsFromValue(obj[last.id]))

\* C2 amended: in a debug build, destroying a Result that holds a value it was
\* constructed from fails the destructor assertion if and only if none of
\* has_value(), has_error() or log() was called on it (or on the Result it was
\* move-constructed from, before the move).
C2_UncheckedValueAsserts ==
  [][\A i \in Slots :
       (build = "debug" /\ last'.op = "~GLExpected" /\ last'.id = i
          /\ HoldsValue(obj[i]) /\ IsFromValue(obj[i]))
         => ((abort' = "unchecked") <=> ~obj[i].g.chk)]_vars

\* C2 witness: the destructor of a value Result on which only take() was
\* called has failed its assertion.
C2_Witness ==
  /\ build = "debug" /\ abort = "unchecked" /\ last.op = "~GLExpected"
  /\ HoldsValue(obj[last.id]) /\ IsFromValue(obj[last.id])
  /\ obj[last.id].g.tk /\ ~obj[last.id].g.chk

\* C3 as stated: with _DEBUG, a Result (GLExpected<T> or GLExpected<void>)
\* constructed from a GLError holding error code c holds an error, with code c
\* and the UNCHECKED flag set.
C3_AsStated ==
  [][\A j \in Slots :
       (DEBUG /\ last'.op \in FromErrorOps /\ last'.id = j /\ abort' = "none"
          /\ HoldsError(obj[last'.ret.at]))
         => /\ HoldsError(obj'[j])
            /\ clean(obj'[j].word) = clean(obj[last'.ret.at].word)
            /\ HasFlag(obj'[j].word)]_vars

\* C4 as stated: has_value() returns true exactly in the holds-value state and
\* has_error() exactly in the holds-error state, for GLExpected<T> and
\* GLExpected<void>; both return false in the consumed/invalid state.
C4_AsStated ==
  /\ last.op \in {"has_value", "void::has_value"}
       => (last.ret.b <=> HoldsValue(obj[last.id]))
  /\ last.op \in {"has_error", "void::has_error"}
       => (last.ret.b <=> HoldsError(obj[last.id]))

\* C5 as stated: in a debug build value() / operator* called on a Result that
\* holds an error fails an assertion, for GLExpected<T> and GLExpected<void>.
C5_AsStated ==
  (build = "debug" /\ last.op \in {"value", "void::value"} /\ HoldsError(obj[last.id]))
    => abort = "peek"

\* C6 as stated: take() on a Result that holds an error returns a GLError with
\* the stored code and leaves the Result consumed, has_value() and has_error()
\* both false, for GLExpected<T> and GLExpected<void>.
C6_AsStated ==
  [][\A i \in Slots :
       (last'.op \in TakeOps /\ last'.id = i /\ abort' = "none" /\ HoldsError(obj[i]))
         => /\ clean(obj'[last'.ret.at].word) = clean(obj[i].word)
            /\ Consumed(obj'[i])
            /\ ~AnswersValue(obj'[i])
            /\ ~AnswersError(obj'[i])]_vars

\* C7 as stated: in a debug build, take() on a Result whose first take()
\* extracted an error fails an assertion.
C7_AsStated ==
  [][\A i \in Slots :
       (build = "debug" /\ last'.op \in TakeOps /\ last'.id = i
          /\ obj[i].first = "error")
         => abort' = "invalid"]_vars

\* C8 as stated: a second take() on a GLExpected<T>, whether its first take()
\* found a value or an error, returns the INVALID_ERROR sentinel.
C8_AsStated ==
  [][\A i \in Slots :
       (last'.op = "take" /\ last'.id = i /\ abort' = "none"
          /\ obj[i].first \in {"value", "error"})
         => clean(obj'[last'.ret.at].word) = INVALID_ERROR]_vars

\* C8 amended: a second take() on a GLExpected<T> whose first take() found an
\* error, when it returns (assertions compiled out), returns the
\* INVALID_ERROR sentinel and leaves the Result consumed; on one whose first
\* take() found a value it returns GL_NO_ERROR and leaves the value in place.
C8_SecondTake ==
  [][\A i \in Slots :
       (last'.op = "take" /\ last'.id = i /\ abort' = "none")
         => /\ obj[i].first = "error"
                => /\ clean(obj'[last'.ret.at].word) = INVALID_ERROR
                   /\ Consumed(obj'[i])
            /\ obj[i].first = "value"
                => /\ clean(obj'[last'.ret.at].word) = NO_ERROR
                   /\ HoldsValue(obj'[i])]_vars

\* C8 witness: a second take() on a Result from which an error had been taken
\* has returned the sentinel.
C8_Witness ==
  /\ last.op = "take" /\ abort = "none" /\ obj[last.id].first = "error"
  /\ obj[last.ret.at].kind = "GLError"
  /\ obj[last.ret.at].word = INVALID_ERROR

\* C9 as stated: value_or(fallback) on a Result holding an error returns the
\* fallback without asserting, and destroying the Result right afterwards
\* does not fail the unchecked-error assertion.
C9_AsStated ==
  [][/\ \A i \in Slots :
          (last'.op = "value_or" /\ last'.id = i /\ HoldsError(obj[i]))
            => (abort' = "none" /\ last'.ret.v = last'.ret.arg)
     /\ (last.op = "value_or" /\ HoldsError(obj[last.id])
           /\ last'.op = "~GLExpected" /\ last'.id = last.id)
          => abort' = "none"]_vars

\* C10 as stated: take() on a Result holding an error that was created with
\* code c and context s returns a GLError with code c and context s.
C10_AsStated ==
  [][\A i \in Slots :
       (last'.op \in TakeOps /\ last'.id = i /\ abort' = "none"
          /\ HoldsError(obj[i]) /\ obj[i].g.org # NoOrg /\ ~IsFromValue(obj[i]))
         => /\ clean(obj'[last'.ret.at].word) = obj[i].g.org.c
            /\ obj'[last'.ret.at].un.v = obj[i].g.org.s]_vars

\* C11: in a chain of awaited steps that returns a Result, the steps run in
\* order up to and including the first failing one and none after it, and the
\* chain ends with its Result holding that step's error; when no step fails
\* every step runs and the Result holds the value returned.
FirstFail(plan) ==
  IF \E k \in 1..Len(plan) : ~plan[k].ok
  THEN CHOOSE k \in 1..Len(plan) :
         /\ ~plan[k].ok
         /\ \A j \in 1..(k - 1) : plan[j].ok
  ELSE 0

Finished == chain.pc \in {"returned", "aborted"}

C11_AsStated ==
  LET f == FirstFail(chain.plan)
      n == Len(chain.plan)
  IN /\ chain.ran = [i \in 1..Len(chain.ran) |-> i]
     /\ f # 0 => Len(chain.ran) <= f
     /\ Finished =>
          /\ chain.pc = "returned"
          /\ IF f = 0
             THEN /\ Len(chain.ran) = n
                  /\ HoldsValue(chain.ret)
                  /\ chain.ret.un = Val(chain.v)
             ELSE /\ Len(chain.ran) = f
                  /\ HoldsError(chain.ret)
                  /\ clean(chain.ret.word) = chain.plan[f].err

\* C12: the state machine is the same in the debug and the release build.
\* After any calls that failed no assertion in the debug build, the objects
\* of the two runs are in the same states (same code, the debug flag aside,
\* and same context) and the last call returned the same in both.
Code(w) == [w EXCEPT !.hi = 0]

SameState(a, b) ==
  /\ a.kind = b.kind
  /\ a.kind # "dead" => Code(a.word) = Code(b.word) /\ a.un = b.un

C12_AsStated ==
  twin.turn = "d" =>
    /\ \A i \in Slots : SameState(twin.d.o[i], twin.r.o[i])
    /\ twin.d.ret.b = twin.r.ret.b
    /\ Code(twin.d.ret.w) = Code(twin.r.ret.w)
    /\ twin.d.ret.c = twin.r.ret.c

\* C13: INVALID_ERROR differs from GL_NO_ERROR and from every driver error
\* code, and a stored word whose code is the sentinel is treated as the
\* sentinel with or without the UNCHECKED flag on it: GLError::take() leaves
\* such a GLError as it is and hands out INVALID_ERROR, and ~GLExpected does
\* nothing for such a Result.
SentinelApart ==
  /\ INVALID_ERROR # NO_ERROR
  /\ \A n \in DriverErrors : INVALID_ERROR # Enum(n)

C13_AsStated ==
  [][/\ SentinelApart
     /\ (/\ last'.op = "GLExpected(GLError&&)"
         /\ Code(obj[last'.ret.at].word) = INVALID_ERROR)
          => /\ obj'[last'.ret.at].word = obj[last'.ret.at].word
             /\ obj'[last'.id].word = INVALID_ERROR
     /\ (/\ last'.op = "~GLExpected"
         /\ Code(obj[last'.id].word) = INVALID_ERROR)
          => abort' = "none"]_vars

\* C14: the release function is called exactly once for every native id an
\* Owned handle wraps, over any moves, move assignments and destructions,
\* and never for a null or moved-from handle: no release function is called
\* with a name that is no object, every object a factory allocated is
\* deleted at most once, and while it is not yet deleted a live handle holds
\* its name (so the destruction of the handles deletes it).
Holder(k, id) == \E i \in Handles : hnd[i].kind = k /\ hnd[i].id = id

Unique ==
  \A i \in Handles, j \in Handles :
    (i # j /\ Live(i) /\ hnd[i].kind = hnd[j].kind /\ hnd[i].id # NullId)
      => hnd[i].id # hnd[j].id

MoveOps == {"Ref(Ref&&)", "Ref::operator="}

C15_AsStated ==
  [][/\ Unique'
     /\ last'.op \in MoveOps => hnd'[last'.ret.at].id = NullId]_vars

\* C15 for handles made by the default constructors, the factories and
\* moves: as long as no handle was constructed from a name by the caller.
C15_UniqueUnlessWrapped ==
  [][/\ ~drv'.raw => Unique'
     /\ last'.op \in MoveOps =>
          /\ hnd'[last'.ret.at].id = NullId
          /\ hnd'[last'.id].id = hnd[last'.ret.at].id]_vars

C15_Witness ==
  /\ ~drv.raw
  /\ last.op = "Ref::operator=" /\ last.ret.arg = "released"
  /\ Ref_is_valid(drv, hnd[last.id])
  /\ hnd[last.ret.at].id = NullId

\* C16: when FrameBuffer::create fails it returns an error, hands out no
\* handle, and every framebuffer it allocated has been released: the live
\* framebuffers are those there were before the call.
C16_FailedCreateReleases ==
  [][(last'.op = "FrameBuffer::create" /\ last'.ret.v = "error") =>
       /\ drv'.live = drv.live
       /\ hnd' = hnd
       /\ \A id \in Ids :
            drv'.gen["FrameBuffer"][id] - drv.gen["FrameBuffer"][id]
              = drv'.rel["FrameBuffer"][id] - drv.rel["FrameBuffer"][id]]_vars

\* A create that allocated a framebuffer and failed in an attach step.
C16_Witness ==
  /\ last.op = "FrameBuffer::create" /\ last.ret.arg = "attach"
  /\ \E id \in Ids : /\ drv.rel["FrameBuffer"][id] = 1
                     /\ drv.gen["FrameBuffer"][id] = 1
                     /\ id \notin drv.live["FrameBuffer"]
  /\ \A i \in Handles : ~Live(i)

\* C17: ColorAttachments() of a FrameBuffer is at most the driver's maximum
\* number of color attachments, after any create, attach and move.
C17_CountWithinMaximum ==
  \A i \in Handles :
    hnd[i].kind = "FrameBuffer" => ColorAttachments(hnd[i]) <= MaxColorAttachments

\* A failed attach on a framebuffer that holds the maximum.
C17_Witness ==
  /\ last.op = "FrameBuffer::attach" /\ last.ret.v = "error"
  /\ ColorAttachments(hnd[last.id]) = MaxColorAttachments

\* C18: link() on a created program that has had no successful attach()
\* returns an error and is_valid() on the program is still true afterwards;
\* the destruction of the handle then releases the program, once.
Created_program(i) == IsProg(i) /\ hnd[i].id \in drv.live["ProgramObject"]

C18_LinkWithoutAttach ==
  [][/\ (/\ last'.op = "ProgramObject::link"
         /\ Created_program(last'.id)
         /\ drv.att[hnd[last'.id].id] = {})
          => /\ last'.ret.v = "error"
             /\ ProgramObject_is_valid(drv', hnd'[last'.id])
     /\ (/\ last'.op = "~Ref"
         /\ Created_program(last'.id))
          => /\ hnd[last'.id].id \notin drv'.live["ProgramObject"]
             /\ drv'.rel["ProgramObject"][hnd[last'.id].id]
                  = drv.rel["ProgramObject"][hnd[last'.id].id] + 1
             /\ ~drv'.bad]_vars

\* A program with nothing attached whose link() has just failed.
C18_Witness ==
  /\ last.op = "ProgramObject::link" /\ last.ret.v = "error"
  /\ Created_program(last.id)
  /\ drv.att[hnd[last.id].id] = {}

\* C19: attach() with an invalid shader handle returns an error and leaves
\* the program's attached shaders and its link state as they were.
C19_AttachInvalidShader ==
  [][(/\ last'.op = "ProgramObject::attach"
      /\ hnd[last'.ret.at].id \notin drv.live["ShaderObject"])
       => /\ last'.ret.v = "error"
          /\ drv'.att = drv.att
          /\ drv'.lnk = drv.lnk]_vars

\* A moved-from shader handed to a linked program.
C19_Witness ==
  /\ last.op = "ProgramObject::attach" /\ last.ret.arg = "shader"
  /\ Created_program(last.id)
  /\ drv.lnk[hnd[last.id].id]
  /\ hnd[last.ret.at].id = NullId

PayloadLive(o) == o.un.m = "val"
ContextLive(o) == o.un.m = "ctx"

TagMatches(o) ==
  /\ PayloadLive(o) <=> peek(o.word)
  /\ (~peek(o.word) /\ o.word # INVALID_ERROR) => ContextLive(o)

C21_AsStated == \A i \in Slots : IsExp(i) => TagMatches(obj[i])

\* C22 as stated: after a Result<T> has been move-constructed or
\* move-assigned into another Result, destroying the moved-from source does
\* not fail the unchecked assertion, whatever state and checked-ness the
\* source had before the move.
MoveResultOps == {"GLExpected(GLExpected&&)", "operator=(GLExpected&&)"}

C22_AsStated ==
  [][(/\ last'.op \in MoveResultOps
      /\ abort' = "none"
      /\ TagMatches(obj[last'.ret.at]))
       => ~GLExpected_dtor_fails(obj'[last'.ret.at])]_vars

\* C23: moving a holds-error Result, by move construction or by move
\* assignment, leaves the target in holds-error with the source's error word
\* (code and UNCHECKED flag) and the context the source's _context held, and
\* leaves the source consumed; moving a consumed Result leaves both consumed.
C23_MoveOfError ==
  [][(last'.op \in MoveResultOps /\ abort' = "none")
       => LET source == obj[last'.ret.at]
              moved  == obj'[last'.ret.at]
              target == obj'[last'.id]
          IN /\ HoldsError(source)
                  => /\ target.word = source.word
                     /\ HoldsError(target)
                     /\ ContextLive(target) /\ target.un.v \in ReadCtx(source.un)
                     /\ moved.word = INVALID_ERROR
             /\ Consumed(source) => Consumed(target) /\ Consumed(moved)]_vars

\* An unchecked error with its context has been move-assigned.
C23_Witness ==
  /\ last.op = "operator=(GLExpected&&)" /\ abort = "none"
  /\ HoldsError(obj[last.id]) /\ HasFlag(obj[last.id].word)
  /\ obj[last.id].un = Ctx("glGenFramebuffers")
  /\ obj[last.ret.at].word = INVALID_ERROR

\* A consumed Result has been moved.
C23_WitnessConsumed ==
  /\ last.op = "GLExpected(GLExpected&&)"
  /\ Consumed(obj[last.id]) /\ Consumed(obj[last.ret.at])

\* C24: with assertions live, an assignment (by move, from a value, or from
\* a GLError) onto a Result or GLError whose word carries the UNCHECKED flag
\* fails the assertion and stores nothing; an assignment onto a target
\* without the flag (checked, or consumed) does not assert.
AssignOps == {"GLError::operator=", "operator=(GLExpected&&)", "operator=(U&&)",
              "operator=(GLError&&)", "void::operator="}

C24_AssignOntoUnchecked ==
  [][(last'.op \in AssignOps /\ Asserts)
       => IF HasFlag(obj[last'.id].word)
          THEN abort' = "unchecked" /\ obj' = obj
          ELSE abort' = "none"]_vars

\* A GLError was assigned onto a Result<T> that held an unchecked error.
C24_Witness ==
  /\ last.op = "operator=(GLError&&)" /\ abort = "unchecked"
  /\ HoldsError(obj[last.id]) /\ HasFlag(obj[last.id].word)

\* An assignment onto a checked Result went through.
C24_WitnessChecked ==
  /\ last.op = "operator=(GLExpected&&)" /\ abort = "none"
  /\ HoldsError(obj[last.id])

\* C25 as stated: swap(a, b) exchanges the complete states of its operands
\* (a value, or an error word with its context, or consumed; the UNCHECKED
\* flag with them) for every combination of states, so that a second swap
\* restores both.  Stated of operands whose union member matches their tag.
SwapOps == {"swap", "void::swap", "GLError::swap"}

\* What an object holds: its word and the live member beside it; for a
\* consumed Result<T> the word alone.
Holds(o) ==
  IF o.kind = "Expected" /\ o.word = INVALID_ERROR
  THEN [word |-> o.word, un |-> Uninit]
  ELSE [word |-> o.word, un |-> o.un]

C25_AsStated ==
  [][(/\ last'.op \in SwapOps
      /\ last'.op = "swap" => TagMatches(obj[last'.id]) /\ TagMatches(obj[last'.ret.at]))
       => /\ Holds(obj'[last'.id]) = Holds(obj[last'.ret.at])
          /\ Holds(obj'[last'.ret.at]) = Holds(obj[last'.id])]_vars

====
